---- MODULE Spec2Model ----
(***************************************************************************)
(* Boot-scene intro playback of gorkitale (src/src/scenes/boot.rs).        *)
(*                                                                         *)
(* Two kinds of threads: the main thread, which runs boot::update once per *)
(* tick, and the decode workers spawned by BootState::init_video.  They    *)
(* interact only through the bounded frame channel (sync_channel(5)) and   *)
(* the unbounded recycle channel (channel()).  update is split at its      *)
(* channel operations, so that worker steps interleave with it as the      *)
(* threads do:                                                             *)
(*   "idle" -UpdateInit-> "mute" -HandleMute-> "poll" -ProcessPoll->       *)
(*   "show" -ProcessShow-> "idle"                                          *)
(* Time is counted in units of 1/UnitsPerSecond s; the f64 timer is an     *)
(* exact integer number of units.                                          *)
(*                                                                         *)
(* env describes the surroundings of one run: how many frames the video    *)
(* source has, which frame rates it may report, which keys are pressed,    *)
(* whether the tetra calls (Sound::new, Sound::play, Texture::from_data)   *)
(* may fail, the values the language setting may take, the tick deltas,    *)
(* whether the application may quit, and how many sessions (loop           *)
(* iterations) of the run are followed.  A run is either one playback of   *)
(* a long fast video in quiet surroundings (LongRun), a short video with   *)
(* the keys pressed (BusyRun), a short video with failing audio calls and  *)
(* both languages (FaultRun), a short video with failing texture and asset *)
(* loads (LoadFaultRun), or a video of one frame more than the frame       *)
(* channel holds, shown at a constant tick rate, which Enter or the end of *)
(* the application may cut short (SteadyRun).  The decoder may fail to     *)
(* open, and a frame may fail to decode, in all of them.  The timer is     *)
(* kept exactly, and ticks that would take it beyond MaxTimer are not      *)
(* explored; only the runs that go on for ever (LiveRun, under LiveSpec)   *)
(* keep it saturated at MaxTimer.                                          *)
(*                                                                         *)
(* The conversion of one decoded frame into its RGBA buffer is followed    *)
(* byte by byte on its own (ConvSpec), for small frames and any recycled   *)
(* buffer.                                                                 *)
(*                                                                         *)
(* What becomes of the session when Enter leaves the boot scene is         *)
(* followed in the runs of a video longer than the frame channel, with a   *)
(* fairly scheduled worker (MenuRun, under MenuSpec).  Two playbacks of    *)
(* the same source whose frames carry different timestamps are run side    *)
(* by side, tick by tick (twin, under TwinSpec).                           *)
(***************************************************************************)
EXTENDS Integers, Sequences, FiniteSets, TLC

\* ---------------------------------------------------------------- bounds
MaxSessions == 2
MaxFrames == 8
ShortFrames == 2
MaxTimer == 3
\* ASSET_LIST of assets.rs has 20 entries; update only compares asset_index
\* with the length of the list, and the model takes a shorter list.
ASSET_LIST_LEN == 2
\* The largest frame converted byte by byte, in pixels, and the longest
\* buffer the recycle channel may hand to the conversion, in bytes.
MaxPixels == 2
MaxRecycledLen == 9
\* The number of ticks a pair of runs is followed for.
MaxTicks == 9

\* ------------------------------------------------------ program constants
ChannelCapacity == 5
DefaultFps == 30
InitialVideoFps == 30
Opaque == 255

\* ------------------------------------------------------------ input sets
UnitsPerSecond == 60
FastFps == 60
ReportedRates == {-1, 0, DefaultFps, FastFps}
Deltas == {1, 3}
Languages == {"tr", "en"}
\* Bytes of a decoded RGB frame, and the byte a recycled buffer is full of
\* (a value that is neither a source byte, nor the zero fill, nor Opaque).
SourceBytes == {1, 2}
StaleByte == 9
\* Timestamps a decoder may give to a frame.
Timestamps == {0, 3}

LongRun == [frames |-> MaxFrames, mute_keys |-> FALSE, enter_key |-> FALSE,
            api_faults |-> {}, langs |-> {"en"}, deltas |-> Deltas,
            rates |-> {FastFps}, quit |-> FALSE, clock |-> "exact",
            sessions |-> 1]
BusyRun == [frames |-> ShortFrames, mute_keys |-> TRUE, enter_key |-> TRUE,
            api_faults |-> {}, langs |-> {"en"}, deltas |-> Deltas,
            rates |-> {DefaultFps}, quit |-> FALSE, clock |-> "exact",
            sessions |-> MaxSessions]
FaultRun == [frames |-> ShortFrames, mute_keys |-> FALSE, enter_key |-> TRUE,
             api_faults |-> {"audio"}, langs |-> Languages, deltas |-> {1},
             rates |-> {DefaultFps}, quit |-> FALSE, clock |-> "exact",
             sessions |-> MaxSessions]
LoadFaultRun == [frames |-> ShortFrames, mute_keys |-> FALSE,
                 enter_key |-> TRUE, api_faults |-> {"texture", "asset"},
                 langs |-> {"en"}, deltas |-> {1}, rates |-> {0},
                 quit |-> FALSE, clock |-> "exact", sessions |-> MaxSessions]
SteadyRun == [frames |-> ChannelCapacity + 1, mute_keys |-> FALSE,
              enter_key |-> TRUE, api_faults |-> {}, langs |-> {"en"},
              deltas |-> {1},
              rates |-> {-1, FastFps}, quit |-> TRUE, clock |-> "exact",
              sessions |-> MaxSessions]
LiveRun == [frames |-> ChannelCapacity + 1, mute_keys |-> FALSE,
            enter_key |-> FALSE, api_faults |-> {}, langs |-> {"en"},
            deltas |-> Deltas, rates |-> {DefaultFps}, quit |-> TRUE,
            clock |-> "saturated", sessions |-> MaxSessions]

\* A video of more frames than the frame channel and the consumer can hold,
\* with Enter pressed at any tick.
MenuRun == [frames |-> ChannelCapacity + 2, mute_keys |-> FALSE,
            enter_key |-> TRUE, api_faults |-> {}, langs |-> {"en"},
            deltas |-> {1}, rates |-> {DefaultFps}, quit |-> TRUE,
            clock |-> "exact", sessions |-> MaxSessions]

Sessions == 1..MaxSessions
\* A buffer is known by the session whose worker allocated it, its number
\* among that worker's allocations, and its length in bytes.
NoBuf == <<0, 0, 0>>
\* A VideoFrame: the number of the frame in its source, the timestamp the
\* decoder gave it, its buffer and the fps of the source (width and height
\* are left out).
NoFrame == [idx |-> -1, time |-> 0, buf |-> NoBuf, fps |-> 0]
\* video_texture: None, or the texture with the number of its creation and
\* the frame whose pixels it holds.
NoTexture == [id |-> 0, frame |-> -1]

VARIABLES
    env, scene, main_pc,
    asset_index, loading_complete, video_muted, waiting_for_input,
    video_receiver, recycler_tx, next_frame, video_sound, video_instance,
    video_texture, video_fps, video_timer, video_ended,
    worker, frame_chan, recycle_chan,
    session, ticks, elapsed, decoded, shown, starved, audio_live,
    open_failed, open_failures, key_enter,
    since_shown, late_starved, end_cause, audio_failed, asset_failed,
    conv, twin

boot == <<asset_index, loading_complete, video_muted, waiting_for_input,
          video_receiver, recycler_tx, next_frame, video_sound,
          video_instance, video_texture, video_fps, video_timer, video_ended>>
threads == <<worker, frame_chan, recycle_chan>>
history == <<session, ticks, elapsed, decoded, shown, starved, audio_live,
             open_failed, open_failures, key_enter, since_shown,
             late_starved, end_cause, audio_failed, asset_failed>>
vars == <<env, scene, main_pc, boot, threads, history, conv, twin>>

\* The state the video pipeline consists of: the workers, both channels and
\* their endpoints, the pending frame, the timer and the ended flag.
pipeline == <<worker, frame_chan, recycle_chan, video_receiver, recycler_tx,
              next_frame, video_timer, video_ended>>

\* Outcomes of a fallible tetra call of kind api ("audio": Sound::new and
\* Sound::play of init_video; "texture": Texture::from_data; "asset": the
\* loads of the manifest), and the states of the mute keys (S, Space) and of
\* Enter at a tick, in this run.
ApiOutcomes(api) == IF api \in env.api_faults THEN BOOLEAN ELSE {TRUE}
MuteKeyStates == IF env.mute_keys THEN BOOLEAN ELSE {FALSE}
EnterKeyStates == IF env.enter_key THEN BOOLEAN ELSE {FALSE}

\* ------------------------------------------------------------- channels
\* A worker that has not been spawned or has returned holds no endpoint:
\* its SyncSender and the recycle Receiver live as long as the thread.
WorkerLive(s) == worker[s].pc \in {"open", "decode", "send"}

\* (variant) the newest message is taken instead of the oldest.
TryRecvNewest(q) == [msg |-> q[Len(q)], rest |-> SubSeq(q, 1, Len(q) - 1)]

\* (variant) the message received stays in the queue.
TryRecvPeek(q) == [msg |-> Head(q), rest |-> q]

\* Receiver::try_recv on a non-empty queue q: the oldest message.
TryRecv(q) == [msg |-> Head(q), rest |-> Tail(q)]

\* (variant) the sender is looked at before the queue: a closed channel
\* counts as ended although frames are still buffered.
PollResultSenderFirst(q, senderLive) ==
    IF ~senderLive THEN "disconnected"
    ELSE IF q # <<>> THEN "ok"
    ELSE "empty"

\* (variant) an empty queue counts as the end of the stream.
PollResultEmptyIsEnd(q, senderLive) ==
    IF q # <<>> THEN "ok" ELSE "disconnected"

\* (variant) the disconnect is never reported: a closed channel looks empty.
PollResultNoEnd(q, senderLive) == IF q # <<>> THEN "ok" ELSE "empty"

\* The three results of Receiver::try_recv, by the queue and the sender.
PollResult(q, senderLive) ==
    IF q # <<>> THEN "ok"
    ELSE IF senderLive THEN "empty"
    ELSE "disconnected"

\* (variant) Receiver::recv: it waits for a message or for the disconnect.
PollReadyBlocking(q, senderLive) == q # <<>> \/ ~senderLive

\* Receiver::try_recv returns at once, whatever the queue and the sender.
PollReady(q, senderLive) == TRUE

\* (variant) one message more than the bound is buffered.
SendReadyOneMore(q) == Len(q) <= ChannelCapacity

\* SyncSender::send completes while fewer than the bound are buffered.
SendReady(q) == Len(q) < ChannelCapacity

\* (variant) only a rate of zero is replaced.
SourceFpsZeroOnly(rate) == IF rate = 0 THEN DefaultFps ELSE rate

\* fps fallback of the worker.
SourceFps(rate) == IF rate <= 0 THEN DefaultFps ELSE rate

\* frame_duration = 1.0 / video_fps, in time units.
FrameDuration(fps) == UnitsPerSecond \div fps

\* File names selected by the language setting.
VideoFile(lang) == IF lang = "tr" THEN "intro_tr.mp4" ELSE "intro_en.mp4"
AudioFile(lang) == IF lang = "tr" THEN "intro_tr.mp3" ELSE "intro_en.mp3"

\* --------------------------------------------------------------- timer
Min(a, b) == IF a <= b THEN a ELSE b

\* The longest frame duration of the sources considered.
LongestFrame ==
    LET D == {FrameDuration(SourceFps(rate)) : rate \in ReportedRates}
    IN  CHOOSE d \in D : \A e \in D : e <= d

\* video_timer += dt.  A saturated clock stops counting at MaxTimer.
TimerAfterTick(timer, dt) == Min(timer + dt, MaxTimer)

\* (variant) the timer is reset on display, the remainder is lost.
TimerAfterShowReset(timer, duration) == {0}

\* video_timer -= frame_duration.  Of a saturated clock standing at MaxTimer
\* only a lower bound of the timer is known, and so of the difference.
TimerAfterShow(timer, duration) ==
    IF env.clock = "saturated" /\ timer = MaxTimer
    THEN (MaxTimer - duration)..MaxTimer
    ELSE {timer - duration}

\* (variant) the recycle channel is not looked at: every frame gets a
\* fresh buffer.
FreshNeededAlways(q) == TRUE

\* init_video, line 127: unwrap_or_else allocates only when try_recv on the
\* recycle channel q returns an error, that is when q is empty.
FreshNeeded(q) == q = <<>>

\* ------------------------------------------------- RGB to RGBA conversion
\* The worker's locals while it converts one decoded frame, lines 124-149:
\* the size read from the decoder, the decoded bytes rgb, the recycle
\* channel as this frame finds it, the buffer rgba, the index i of the
\* conversion loop, and the buffer handed to tx.send.  reused tells whether
\* rgba came from the recycle channel, obtained the length it had then,
\* before any resize.
NoConv == [pc |-> "none", width |-> 0, height |-> 0, rgb |-> <<>>,
           recycler_rx |-> <<>>, rgba |-> <<>>, i |-> 0, reused |-> FALSE,
           obtained |-> 0, sent |-> <<>>]

FrameSizes ==
    {d \in (1..MaxPixels) \X (1..MaxPixels) : d[1] * d[2] <= MaxPixels}
StaleBuffers == {[k \in 1..n |-> StaleByte] : n \in 0..MaxRecycledLen}
ConvInputs ==
    UNION {{[NoConv EXCEPT !.pc = "recv", !.width = d[1], !.height = d[2],
                           !.rgb = rgb, !.recycler_rx = q] :
               rgb \in [1..(3 * d[1] * d[2]) -> SourceBytes],
               q \in {<<>>} \cup {<<b>> : b \in StaleBuffers}} :
           d \in FrameSizes}

\* (width * height * 4) as usize.
BufferLen(width, height) == width * height * 4

\* decoder.size() of the source of session s, as <<width, height>>: the
\* sessions of a run have videos of different sizes (the language, and with
\* it the file, may change from one session to the next).
SizeOf(s) == <<s, 1>>

\* (variant) the size is read for every frame, from a source whose
\* resolution changes from frame to frame.
WorkerSizePerFrame(s, idx) == <<s + (idx % 2), 1>>

\* Line 118: the worker reads the size once, before the decode loop, and
\* uses it for every frame idx.
WorkerSize(s, idx) == SizeOf(s)

\* The length rgba must have for frame idx of worker s, lines 127 and 130.
NeededLen(s, idx) == BufferLen(WorkerSize(s, idx)[1], WorkerSize(s, idx)[2])

\* Lines 130-132 for a buffer known by its length: it is resized if the
\* length is not n.
ResizeDue(buf, n) == buf[3] # n
Resized(buf, n) == IF ResizeDue(buf, n) THEN <<buf[1], buf[2], n>> ELSE buf

\* vec![0u8; n].
Zeros(n) == [k \in 1..n |-> 0]

\* (variant) resize only grows a buffer.
ResizeGrowOnly(buf, n, v) ==
    IF Len(buf) >= n THEN buf
    ELSE [k \in 1..n |-> IF k <= Len(buf) THEN buf[k] ELSE v]

\* Vec::resize(n, v): truncate to n, or extend to n with v.
Resize(buf, n, v) == [k \in 1..n |-> IF k <= Len(buf) THEN buf[k] ELSE v]

\* Line 127: a recycled buffer if the recycle channel q holds one, else a
\* fresh one of n zero bytes.
ObtainBuffer(q, n) == IF FreshNeeded(q) THEN Zeros(n) ELSE TryRecv(q).msg

\* Lines 130-132.
EnsureSize(buf, n) == IF Len(buf) # n THEN Resize(buf, n, 0) ELSE buf

\* rgb.chunks_exact(3): the number of chunks, and chunk i (from 0).
ChunkCount(rgb) == Len(rgb) \div 3
Chunk(rgb, i) == SubSeq(rgb, 3 * i + 1, 3 * i + 3)

\* (variant) the alpha byte is left as the buffer holds it.
ConvertChunkNoAlpha(rgba, i, chunk) ==
    LET j == 4 * i
    IN  IF j + 4 <= Len(rgba)
        THEN [k \in 1..Len(rgba) |->
                 IF k \in (j + 1)..(j + 3) THEN chunk[k - j] ELSE rgba[k]]
        ELSE rgba

\* Lines 137-145: the body of the conversion loop for chunk i.  get_mut
\* yields the four bytes j..j+4 of rgba if they exist (bytes j+1..j+4 of a
\* sequence), and nothing is written if they do not.
ConvertChunk(rgba, i, chunk) ==
    LET j == 4 * i
    IN  IF j + 4 <= Len(rgba)
        THEN [k \in 1..Len(rgba) |->
                 IF k \in (j + 1)..(j + 3) THEN chunk[k - j]
                 ELSE IF k = j + 4 THEN Opaque
                 ELSE rgba[k]]
        ELSE rgba

\* -------------------------------------------------------------- Init
NewWorker == [pc |-> "none", idx |-> 0, rate |-> 0, fps |-> 0,
              buf |-> NoBuf, allocs |-> 0, resized |-> FALSE, src |-> "none"]
ExitedWorker == [NewWorker EXCEPT !.pc = "exited"]

\* One playback of a pair: the part of BootState the scheduler works on,
\* the frame channel, the worker's position (wpc) and next frame (widx),
\* and the record of what was displayed and restarted at which tick.
NewPlayback == [video_receiver |-> FALSE, frame_chan |-> <<>>,
                next_frame |-> NoFrame, video_fps |-> InitialVideoFps,
                video_timer |-> 0, video_ended |-> FALSE,
                wpc |-> "none", widx |-> 0,
                displayed |-> <<>>, restarts |-> <<>>]

\* Two playbacks of the same source, a and b, at the same tick.
NewTwin == [a |-> NewPlayback, b |-> NewPlayback, tick |-> 0]

InitWith(e) ==
    /\ env = e
    /\ scene = "Boot"
    /\ main_pc = "idle"
    /\ asset_index = 0
    /\ loading_complete = FALSE
    /\ video_muted = FALSE
    /\ waiting_for_input = FALSE
    /\ video_receiver = 0
    /\ recycler_tx = 0
    /\ next_frame = NoFrame
    /\ video_sound = "none"
    /\ video_instance = "none"
    /\ video_texture = NoTexture
    /\ video_fps = InitialVideoFps
    /\ video_timer = 0
    /\ video_ended = FALSE
    /\ worker = [s \in Sessions |-> NewWorker]
    /\ frame_chan = [s \in Sessions |-> <<>>]
    /\ recycle_chan = [s \in Sessions |-> <<>>]
    /\ session = 0
    /\ ticks = 0
    /\ elapsed = 0
    /\ decoded = <<>>
    /\ shown = <<>>
    /\ starved = FALSE
    /\ audio_live = 0
    /\ open_failed = FALSE
    /\ open_failures = 0
    /\ key_enter = FALSE
    /\ since_shown = 0
    /\ late_starved = FALSE
    /\ end_cause = "none"
    /\ audio_failed = FALSE
    /\ asset_failed = FALSE
    /\ twin = NewTwin

Init ==
    /\ \E e \in {LongRun, BusyRun, FaultRun, LoadFaultRun, SteadyRun} :
         InitWith(e)
    /\ conv = NoConv
InitLive == InitWith(LiveRun) /\ conv = NoConv

\* ------------------------------------------------------- init_video
\* The sound kept in video_sound after the load attempts of init_video.
LoadSound(sound, lang, loadOk, fallbackOk) ==
    IF sound # "none" THEN sound
    ELSE IF loadOk THEN AudioFile(lang)
    ELSE IF fallbackOk THEN VideoFile(lang)
    ELSE "none"

\* sound.play is attempted when a sound is loaded and the video is not muted.
PlayAttempted(sound, muted) == sound # "none" /\ ~muted

\* (variant) init_video returns when no sound could be loaded or played,
\* before the channels are created and the worker is spawned.
InitVideoSoundFirst(lang, loadOk, fallbackOk, playOk) ==
    LET sound == LoadSound(video_sound, lang, loadOk, fallbackOk)
        attempted == PlayAttempted(sound, video_muted)
        started == attempted /\ playOk
        failed == sound = "none" \/ (attempted /\ ~playOk)
        s == session + 1
    IN  /\ session < env.sessions
        /\ video_sound' = sound
        /\ video_instance' = IF started THEN "playing" ELSE video_instance
        /\ audio_live' = IF started THEN audio_live + 1 ELSE audio_live
        /\ audio_failed' = failed
        /\ IF failed
           THEN UNCHANGED <<session, video_receiver, recycler_tx, threads,
                            elapsed, decoded, shown, starved, open_failed,
                            since_shown, late_starved, end_cause>>
           ELSE /\ session' = s
                /\ video_receiver' = s
                /\ recycler_tx' = s
                /\ worker' = [worker EXCEPT ![s] =
                       [NewWorker EXCEPT !.pc = "open", !.src = VideoFile(lang)]]
                /\ frame_chan' = [frame_chan EXCEPT ![s] = <<>>]
                /\ recycle_chan' = [recycle_chan EXCEPT ![s] = <<>>]
                /\ elapsed' = 0
                /\ decoded' = <<>>
                /\ shown' = <<>>
                /\ starved' = FALSE
                /\ open_failed' = FALSE
                /\ since_shown' = 0
                /\ late_starved' = FALSE
                /\ end_cause' = "none"

\* init_video, lines 59-160, up to the spawn of the worker thread: load the
\* sound if none is kept, play it unless muted, create both channels, keep
\* the receiver and the recycle sender, spawn the worker.
InitVideo(lang, loadOk, fallbackOk, playOk) ==
    LET sound == LoadSound(video_sound, lang, loadOk, fallbackOk)
        attempted == PlayAttempted(sound, video_muted)
        started == attempted /\ playOk
        s == session + 1
    IN  /\ session < env.sessions
        /\ video_sound' = sound
        /\ video_instance' = IF started THEN "playing" ELSE video_instance
        /\ audio_live' = IF started THEN audio_live + 1 ELSE audio_live
        /\ session' = s
        /\ video_receiver' = s
        /\ recycler_tx' = s
        /\ worker' = [worker EXCEPT ![s] =
                         [NewWorker EXCEPT !.pc = "open", !.src = VideoFile(lang)]]
        /\ frame_chan' = [frame_chan EXCEPT ![s] = <<>>]
        /\ recycle_chan' = [recycle_chan EXCEPT ![s] = <<>>]
        /\ elapsed' = 0
        /\ decoded' = <<>>
        /\ shown' = <<>>
        /\ starved' = FALSE
        /\ open_failed' = FALSE
        /\ since_shown' = 0
        /\ late_starved' = FALSE
        /\ end_cause' = "none"
        /\ audio_failed' = (sound = "none" \/ (attempted /\ ~playOk))

\* (variant) the receiver is not looked at: every tick initialises.
InitNeededEveryTick == ~video_ended

\* The guard of update's first statement.
InitNeeded == video_receiver = 0 /\ ~video_ended

\* update, lines 164-167: initialise the video on the first tick and after
\* every restart.
UpdateInit ==
    /\ scene = "Boot"
    /\ main_pc = "idle"
    /\ main_pc' = "mute"
    /\ IF InitNeeded
       THEN \E lang \in env.langs, loadOk \in ApiOutcomes("audio"),
               fallbackOk \in ApiOutcomes("audio"),
               playOk \in ApiOutcomes("audio") :
                InitVideo(lang, loadOk, fallbackOk, playOk)
       ELSE UNCHANGED <<video_sound, video_instance, audio_live, session,
                        video_receiver, recycler_tx, threads, elapsed,
                        decoded, shown, starved, open_failed, since_shown,
                        late_starved, end_cause, audio_failed>>
    /\ UNCHANGED <<env, conv, twin, scene, asset_index, loading_complete, video_muted,
                   waiting_for_input, next_frame, video_texture, video_fps,
                   video_timer, video_ended, ticks, open_failures, key_enter,
                   asset_failed>>

\* update, lines 169-175: S or Space toggles the mute flag.
ToggleMute(muted, key) == IF key THEN ~muted ELSE muted

\* (variant) a mute toggle also rewinds the frame timer.
HandleMuteRewinding ==
    /\ main_pc = "mute"
    /\ main_pc' = "poll"
    /\ \E key \in MuteKeyStates :
         /\ video_muted' = (IF key THEN ~video_muted ELSE video_muted)
         /\ video_timer' = IF key THEN 0 ELSE video_timer
    /\ UNCHANGED <<env, conv, twin, scene, asset_index, loading_complete,
                   waiting_for_input, video_receiver, recycler_tx, next_frame,
                   video_sound, video_instance, video_texture, video_fps,
                   video_ended, threads, history>>

\* update, lines 169-175: the mute handling, between init and the poll.
HandleMute ==
    /\ main_pc = "mute"
    /\ main_pc' = "poll"
    /\ \E key \in MuteKeyStates : video_muted' = ToggleMute(video_muted, key)
    /\ UNCHANGED <<env, conv, twin, scene, asset_index, loading_complete,
                   waiting_for_input, video_receiver, recycler_tx, next_frame,
                   video_sound, video_instance, video_texture, video_fps,
                   video_timer, video_ended, threads, history>>

\* ---------------------------------------------- update: frame scheduler
\* (variant) the frame channel is polled in every tick.
PollNeededAlways(frame) == TRUE

\* update, line 183: the frame channel is polled if no frame is pending.
PollNeeded(frame) == frame = NoFrame

\* update, lines 178-191: advance the timer, then poll the frame channel
\* when no frame is pending.  Ok stores the frame, Disconnected (queue empty
\* and the worker's sender dropped) sets video_ended, Empty changes nothing.
ProcessPoll ==
    /\ main_pc = "poll"
    /\ main_pc' = "show"
    /\ IF video_receiver # 0
       THEN \E dt \in env.deltas :
              /\ env.clock = "exact" => video_timer + dt <= MaxTimer
              /\ video_timer' = TimerAfterTick(video_timer, dt)
              /\ elapsed' = IF env.clock = "exact" THEN elapsed + dt
                            ELSE elapsed
              /\ since_shown' = Min(since_shown + dt, LongestFrame)
              /\ IF ~PollNeeded(next_frame)
                 THEN UNCHANGED <<next_frame, frame_chan, video_ended, starved,
                                  late_starved>>
                 ELSE LET q == frame_chan[video_receiver]
                          res == PollResult(q, WorkerLive(video_receiver))
                      IN  /\ PollReady(q, WorkerLive(video_receiver))
                          /\ next_frame' = IF res = "ok" THEN TryRecv(q).msg
                                           ELSE next_frame
                          /\ frame_chan' =
                                IF res = "ok"
                                THEN [frame_chan EXCEPT
                                        ![video_receiver] = TryRecv(q).rest]
                                ELSE frame_chan
                          /\ video_ended' = IF res = "disconnected" THEN TRUE
                                            ELSE video_ended
                          /\ starved' = IF res = "ok" THEN starved ELSE TRUE
                          /\ late_starved' =
                                (late_starved \/ (res # "ok" /\ shown # <<>>))
       ELSE UNCHANGED <<video_timer, elapsed, next_frame, frame_chan,
                        video_ended, starved, since_shown, late_starved>>
    /\ UNCHANGED <<env, conv, twin, scene, asset_index, loading_complete, video_muted,
                   waiting_for_input, video_receiver, recycler_tx, video_sound,
                   video_instance, video_texture, video_fps, worker,
                   recycle_chan, session, ticks, decoded, shown, audio_live,
                   open_failed, open_failures, key_enter, asset_failed, end_cause,
                   audio_failed>>

\* (variant) a pending frame is shown without looking at the timer.
FrameDueAlways(timer, fps) == TRUE

\* The pending frame is due: update, line 209.
FrameDue(timer, fps) == timer >= FrameDuration(fps)

\* (variant) the pending frame is shown when the timer has reached the
\* timestamp the decoder gave it.
DisplayDueByTimestamp(frame, timer) == timer >= frame.time

\* update, lines 194-209: the pattern takes the fps of the pending frame
\* and ignores its timestamp; the frame is due by the timer alone.
DisplayDue(frame, timer) == FrameDue(timer, frame.fps)

\* SoundInstance::stop on the kept handle, if any.
StopInstance(inst) == IF inst = "playing" THEN "stopped" ELSE inst

\* (variant) stop has no effect on the instance that plays.
LiveAfterStopNoop(inst, live) == live

\* The number of playing instances after SoundInstance::stop on the handle.
LiveAfterStop(inst, live) == IF inst = "playing" THEN live - 1 ELSE live

\* (variant) the manifest advances only in ticks that hold a video frame.
AssetIndexAfterWithFrame(index, complete) ==
    IF ~complete /\ index < ASSET_LIST_LEN /\ next_frame # NoFrame
    THEN index + 1 ELSE index

\* update, lines 262-290: one manifest entry per tick, then the flag.
AssetIndexAfter(index, complete) ==
    IF ~complete /\ index < ASSET_LIST_LEN THEN index + 1 ELSE index
LoadingCompleteAfter(index, complete) ==
    complete \/ ~(index < ASSET_LIST_LEN)

\* update, lines 263-285: this tick loads a manifest entry (Texture::new or
\* Sound::new, which may fail; the failure is only printed).
AssetLoadDue(index, complete) == ~complete /\ index < ASSET_LIST_LEN

\* (variant) Enter leaves the boot scene whether or not loading is complete.
LeaveDueOnEnter(complete, enter) == enter

\* update, lines 293-301: the scene is left when loading is complete and
\* Enter is pressed.
LeaveDue(complete, enter) == complete /\ enter

\* (variant) every displayed frame gets a texture of its own.
TextureAfterShowRecreate(tex, ok, idx) ==
    IF ok THEN [id |-> tex.id + 1, frame |-> idx] ELSE tex

\* update, lines 215-234: Texture::from_data creates the texture from the
\* frame if there is none, and the texture is kept only if the call
\* succeeds; an existing texture gets the frame by set_data, whose failure
\* is ignored.
TextureAfterShow(tex, ok, idx) ==
    IF tex = NoTexture
    THEN IF ok THEN [id |-> 1, frame |-> idx] ELSE tex
    ELSE IF ok THEN [tex EXCEPT !.frame = idx] ELSE tex

\* draw, lines 311-323: the texture is drawn if there is one, the fallback
\* text if there is none.
PlaceholderShown == video_texture = NoTexture

\* (variant) after a display the next frame is fetched in the same tick.
ShowFrameRefetch(texOk) ==
    LET fps == next_frame.fps
        due == DisplayDue(next_frame, video_timer)
        q == frame_chan[video_receiver]
    IN  /\ video_fps' = fps
        /\ IF due
           THEN /\ shown' = Append(shown, next_frame.idx)
                /\ video_texture' =
                      TextureAfterShow(video_texture, texOk, next_frame.idx)
                /\ recycle_chan' =
                      IF recycler_tx # 0 /\ WorkerLive(recycler_tx)
                      THEN [recycle_chan EXCEPT
                              ![recycler_tx] = Append(@, next_frame.buf)]
                      ELSE recycle_chan
                /\ next_frame' = IF q # <<>> THEN TryRecv(q).msg ELSE NoFrame
                /\ frame_chan' =
                      IF q # <<>>
                      THEN [frame_chan EXCEPT
                              ![video_receiver] = TryRecv(q).rest]
                      ELSE frame_chan
                /\ video_timer' \in
                      TimerAfterShow(video_timer, FrameDuration(fps))
                /\ since_shown' = 0
           ELSE UNCHANGED <<shown, video_texture, recycle_chan, next_frame,
                            video_timer, since_shown, frame_chan>>
        /\ UNCHANGED <<video_receiver, recycler_tx, video_ended>>

\* update, lines 193-242: show the pending frame when it is due.  The
\* buffer goes to the recycle channel; the send fails, and the buffer is
\* freed, when the worker has dropped the receiver.
ShowFrame(texOk) ==
    LET fps == next_frame.fps
        due == DisplayDue(next_frame, video_timer)
    IN  /\ video_fps' = fps
        /\ IF due
           THEN /\ shown' = Append(shown, next_frame.idx)
                /\ video_texture' =
                      TextureAfterShow(video_texture, texOk, next_frame.idx)
                /\ recycle_chan' =
                      IF recycler_tx # 0 /\ WorkerLive(recycler_tx)
                      THEN [recycle_chan EXCEPT
                              ![recycler_tx] = Append(@, next_frame.buf)]
                      ELSE recycle_chan
                /\ next_frame' = NoFrame
                /\ video_timer' \in
                      TimerAfterShow(video_timer, FrameDuration(fps))
                /\ since_shown' = 0
           ELSE UNCHANGED <<shown, video_texture, recycle_chan, next_frame,
                            video_timer, since_shown>>
        /\ UNCHANGED <<video_receiver, recycler_tx, video_ended, frame_chan>>

\* update, line 243: the restart branch is taken when no frame is pending
\* and the ended flag is set.
RestartDue == video_receiver # 0 /\ next_frame = NoFrame /\ video_ended

\* (variant) the restart leaves the timer as it is.
RestartTimerKept ==
    /\ video_receiver' = 0
    /\ recycler_tx' = 0
    /\ video_ended' = FALSE
    /\ frame_chan' = [frame_chan EXCEPT ![video_receiver] = <<>>]
    /\ UNCHANGED <<shown, video_texture, recycle_chan, next_frame, video_fps,
                   since_shown, video_timer>>

\* (variant) the restart leaves the ended flag set.
RestartFlagKept ==
    /\ video_receiver' = 0
    /\ recycler_tx' = 0
    /\ video_timer' = 0
    /\ frame_chan' = [frame_chan EXCEPT ![video_receiver] = <<>>]
    /\ UNCHANGED <<shown, video_texture, recycle_chan, next_frame, video_fps,
                   since_shown, video_ended>>

\* update, lines 243-259: the loop restart.  Both endpoints are dropped (and
\* with the receiver whatever the frame channel still holds), the flag and
\* the timer are reset; ProcessShow stops and clears the audio instance.
Restart ==
    /\ video_receiver' = 0
    /\ recycler_tx' = 0
    /\ video_ended' = FALSE
    /\ video_timer' = 0
    /\ frame_chan' = [frame_chan EXCEPT ![video_receiver] = <<>>]
    /\ UNCHANGED <<shown, video_texture, recycle_chan, next_frame, video_fps,
                   since_shown>>

\* update, lines 193-302: display or restart, asset loading, transition.
ProcessShow ==
    /\ main_pc = "show"
    /\ main_pc' = "idle"
    /\ \E texOk \in ApiOutcomes("texture"), enter \in EnterKeyStates,
          assetOk \in ApiOutcomes("asset") :
         LET inst1 == IF RestartDue THEN "none" ELSE video_instance
             live1 == IF RestartDue
                      THEN LiveAfterStop(video_instance, audio_live)
                      ELSE audio_live
             complete == LoadingCompleteAfter(asset_index, loading_complete)
             leave == LeaveDue(complete, enter)
         IN  /\ IF video_receiver # 0 /\ next_frame # NoFrame
                THEN ShowFrame(texOk)
                ELSE IF RestartDue
                THEN Restart
                ELSE UNCHANGED <<shown, video_texture, recycle_chan,
                                 next_frame, video_timer, video_fps,
                                 video_receiver, recycler_tx, video_ended,
                                 frame_chan, since_shown>>
             /\ asset_index' = AssetIndexAfter(asset_index, loading_complete)
             /\ loading_complete' = complete
             /\ waiting_for_input' = (waiting_for_input \/ complete)
             /\ video_instance' = IF leave THEN StopInstance(inst1) ELSE inst1
             /\ audio_live' = IF leave THEN LiveAfterStop(inst1, live1)
                              ELSE live1
             /\ scene' = IF leave THEN "Menu" ELSE scene
             /\ key_enter' = enter
             /\ asset_failed' =
                   (asset_failed
                      \/ (AssetLoadDue(asset_index, loading_complete)
                            /\ ~assetOk))
    /\ ticks' = IF ticks <= ASSET_LIST_LEN THEN ticks + 1 ELSE ticks
    /\ UNCHANGED <<env, conv, twin, video_muted, video_sound, worker, session, elapsed,
                   decoded, starved, open_failed, open_failures, late_starved,
                   end_cause, audio_failed>>

\* -------------------------------------------------------- decode worker
\* The thread returns: its locals are gone, its sender and the recycle
\* receiver are dropped, and with the receiver the buffers still waiting in
\* the recycle channel.
WorkerExit(s) ==
    /\ worker' = [worker EXCEPT ![s] = ExitedWorker]
    /\ recycle_chan' = [recycle_chan EXCEPT ![s] = <<>>]

\* (variant) the result of Decoder::new is ignored.
AfterOpenUnchecked(ok) == "decode"

\* Where the thread goes after Decoder::new.
AfterOpen(ok) == IF ok THEN "decode" ELSE "exited"

\* init_video, lines 113-120 and 157: open the decoder.
WorkerOpen(s) ==
    /\ worker[s].pc = "open"
    /\ \E ok \in BOOLEAN, rate \in env.rates :
         /\ IF AfterOpen(ok) = "decode"
            THEN /\ worker' = [worker EXCEPT ![s].pc = "decode",
                                             ![s].rate = rate,
                                             ![s].fps = SourceFps(rate)]
                 /\ UNCHANGED recycle_chan
            ELSE WorkerExit(s)
         /\ open_failed' = IF s = session /\ ~ok THEN TRUE ELSE open_failed
         /\ open_failures' = IF ok THEN open_failures ELSE open_failures + 1
    /\ UNCHANGED <<env, conv, twin, scene, main_pc, boot, frame_chan, session, ticks,
                   elapsed, decoded, shown, starved, audio_live, key_enter,
                   asset_failed,
                   since_shown, late_starved, end_cause, audio_failed>>

\* (variant) a frame that fails to decode is skipped.
AfterDecodeSkipError(res) ==
    IF res = "frame" THEN "send"
    ELSE IF res = "error" THEN "decode"
    ELSE "exited"

\* Where the thread goes after an item of decode_iter: on to the send with
\* a frame, out of the loop when the iterator is exhausted ("eos") and when
\* the item is an Err ("error").
AfterDecode(res) == IF res = "frame" THEN "send" ELSE "exited"

\* init_video, lines 122-146: decode the next frame and obtain its buffer,
\* a recycled one if the recycle channel holds one, else a fresh one of the
\* length needed; a recycled buffer of another length is resized (resized
\* records that this has happened).
WorkerDecode(s) ==
    /\ worker[s].pc = "decode"
    /\ worker[s].idx < env.frames
    /\ LET q == recycle_chan[s]
           n == NeededLen(s, worker[s].idx)
       IN
       IF ~FreshNeeded(q)
       THEN /\ worker' = [worker EXCEPT
                             ![s].pc = AfterDecode("frame"),
                             ![s].buf = Resized(TryRecv(q).msg, n),
                             ![s].resized = @ \/ ResizeDue(TryRecv(q).msg, n)]
            /\ recycle_chan' = [recycle_chan EXCEPT ![s] = TryRecv(q).rest]
       ELSE /\ worker' = [worker EXCEPT
                             ![s].pc = AfterDecode("frame"),
                             ![s].buf = <<s, worker[s].allocs + 1, n>>,
                             ![s].allocs = @ + 1]
            /\ UNCHANGED recycle_chan
    /\ decoded' = IF s = session THEN Append(decoded, worker[s].idx)
                  ELSE decoded
    /\ UNCHANGED <<env, conv, twin, scene, main_pc, boot, frame_chan, session, ticks,
                   elapsed, shown, starved, audio_live, open_failed,
                   open_failures, key_enter, asset_failed, since_shown, late_starved,
                   end_cause, audio_failed>>

\* init_video, lines 122-123 and 152-155: the source is exhausted after its
\* env.frames frames, or one of them fails to decode; either way the loop
\* ends and the thread returns.
WorkerEnd(s) ==
    /\ worker[s].pc = "decode"
    /\ \E cause \in {"eos", "error"} :
         /\ (cause = "eos") = (worker[s].idx = env.frames)
         /\ IF AfterDecode(cause) = "exited"
            THEN WorkerExit(s)
            ELSE /\ worker' = [worker EXCEPT ![s].pc = AfterDecode(cause),
                                             ![s].idx = @ + 1]
                 /\ UNCHANGED recycle_chan
         /\ end_cause' = IF s = session THEN cause ELSE end_cause
    /\ UNCHANGED <<env, conv, twin, scene, main_pc, boot, frame_chan, session, ticks,
                   elapsed, decoded, shown, starved, audio_live, open_failed,
                   open_failures, key_enter, asset_failed, since_shown, late_starved,
                   audio_failed>>

\* (variant) the receiver is dropped when the boot scene is left.
ReceiverDroppedWithScene(s) == video_receiver # s \/ scene = "Menu"

\* The receiver of session s has been dropped: BootState, which lives as
\* long as the game state, does not hold it any more.
ReceiverDropped(s) == video_receiver # s

\* time.as_secs_f64() of line 149 for the frames of this source: frame idx
\* is stamped with its presentation time.
FrameTime(idx, fps) == idx * FrameDuration(fps)

\* (variant) the result of tx.send is ignored.
AfterSendUnchecked(ok) == "decode"

\* Where the thread goes after tx.send: on, or out of the loop on Err.
AfterSend(ok) == IF ok THEN "decode" ELSE "exited"

\* init_video, lines 148-151: the blocking send on the frame channel.  It
\* fails when the receiver has been dropped, and the loop breaks.
WorkerSend(s) ==
    /\ worker[s].pc = "send"
    /\ IF ReceiverDropped(s)
       THEN /\ IF AfterSend(FALSE) = "exited"
               THEN WorkerExit(s)
               ELSE /\ worker' = [worker EXCEPT ![s].pc = AfterSend(FALSE),
                                                ![s].idx = @ + 1,
                                                ![s].buf = NoBuf]
                    /\ UNCHANGED recycle_chan
            /\ UNCHANGED frame_chan
       ELSE /\ SendReady(frame_chan[s])
            /\ frame_chan' = [frame_chan EXCEPT ![s] =
                  Append(@, [idx |-> worker[s].idx,
                             time |-> FrameTime(worker[s].idx, worker[s].fps),
                             buf |-> worker[s].buf,
                             fps |-> worker[s].fps])]
            /\ worker' = [worker EXCEPT ![s].pc = AfterSend(TRUE),
                                        ![s].idx = @ + 1, ![s].buf = NoBuf]
            /\ UNCHANGED recycle_chan
    /\ UNCHANGED <<env, conv, twin, scene, main_pc, boot, history>>

\* ------------------------------------------------------ application exit
\* The application quits between two updates of the boot scene: the game
\* state and with it the BootState is dropped, so both channel endpoints
\* and the pending frame are; the frames still buffered go with the
\* receiver.  The worker thread is not joined.
Quit ==
    /\ env.quit
    /\ scene = "Boot"
    /\ main_pc = "idle"
    /\ scene' = "Quit"
    /\ video_receiver' = 0
    /\ recycler_tx' = 0
    /\ next_frame' = NoFrame
    /\ frame_chan' = [s \in Sessions |->
                        IF s = video_receiver THEN <<>> ELSE frame_chan[s]]
    /\ UNCHANGED <<env, conv, twin, main_pc, asset_index, loading_complete, video_muted,
                   waiting_for_input, video_sound, video_instance,
                   video_texture, video_fps, video_timer, video_ended, worker,
                   recycle_chan, history>>

\* One step of the main thread inside update, and one step of a worker.
MainStep == UpdateInit \/ HandleMute \/ ProcessPoll \/ ProcessShow
WorkerStep(s) == WorkerOpen(s) \/ WorkerDecode(s) \/ WorkerEnd(s) \/ WorkerSend(s)

Next ==
    \/ UpdateInit
    \/ HandleMute
    \/ ProcessPoll
    \/ ProcessShow
    \/ Quit
    \/ \E s \in Sessions : WorkerOpen(s)
    \/ \E s \in Sessions : WorkerDecode(s)
    \/ \E s \in Sessions : WorkerEnd(s)
    \/ \E s \in Sessions : WorkerSend(s)

Spec == Init /\ [][Next]_vars

\* The runs that go on for ever: the game loop keeps calling update while
\* the scene is Boot, and the operating system schedules every thread that
\* can run.
LiveSpec ==
    /\ InitLive
    /\ [][Next]_vars
    /\ WF_vars(MainStep)
    /\ \A s \in Sessions : WF_vars(WorkerStep(s))

\* The runs that leave the boot scene while the worker has frames to send:
\* the operating system goes on scheduling the worker thread, whatever the
\* main thread does.
MenuInit == InitWith(MenuRun) /\ conv = NoConv
MenuSpec ==
    /\ MenuInit
    /\ [][Next]_vars
    /\ \A s \in Sessions : WF_vars(WorkerStep(s))

\* ------------------------------------------------- a pair of playbacks
\* update and the worker as functions of one playback p.
\* Lines 164-167 with init_video, lines 104-112.
PlayInit(p) ==
    IF ~p.video_receiver /\ ~p.video_ended
    THEN [p EXCEPT !.video_receiver = TRUE, !.frame_chan = <<>>,
                   !.wpc = "decode", !.widx = 0]
    ELSE p

\* Lines 178-191.
PlayPoll(p, dt) ==
    IF ~p.video_receiver THEN p
    ELSE LET q == p.frame_chan
             res == PollResult(q, p.wpc \in {"decode", "send"})
             p1 == [p EXCEPT !.video_timer = @ + dt]
         IN  IF ~PollNeeded(p.next_frame) THEN p1
             ELSE [p1 EXCEPT
                     !.next_frame = IF res = "ok" THEN TryRecv(q).msg ELSE @,
                     !.frame_chan = IF res = "ok" THEN TryRecv(q).rest ELSE @,
                     !.video_ended = IF res = "disconnected" THEN TRUE ELSE @]

\* Lines 193-259, at tick number tick.
PlayShow(p, tick) ==
    IF ~p.video_receiver THEN p
    ELSE IF p.next_frame # NoFrame
    THEN LET frame == p.next_frame
             p1 == [p EXCEPT !.video_fps = frame.fps]
         IN  IF DisplayDue(frame, p.video_timer)
             THEN [p1 EXCEPT
                     !.next_frame = NoFrame,
                     !.video_timer = @ - FrameDuration(frame.fps),
                     !.displayed = Append(@, <<tick, frame.idx>>)]
             ELSE p1
    ELSE IF p.video_ended
    THEN [p EXCEPT !.video_receiver = FALSE, !.frame_chan = <<>>,
                   !.video_ended = FALSE, !.video_timer = 0,
                   !.restarts = Append(@, tick)]
    ELSE p

\* One call of update.
PlayTick(p, dt, tick) == PlayShow(PlayPoll(PlayInit(p), dt), tick)

\* Lines 122-123: the next item of decode_iter.
PlayDecode(p) ==
    IF p.wpc # "decode" THEN p
    ELSE IF p.widx < ShortFrames THEN [p EXCEPT !.wpc = "send"]
    ELSE [p EXCEPT !.wpc = "exited"]

\* Lines 148-151: the send of the frame, which carries timestamp time.
PlaySend(p, time) ==
    IF p.wpc # "send" THEN p
    ELSE IF ~p.video_receiver THEN [p EXCEPT !.wpc = AfterSend(FALSE)]
    ELSE IF ~SendReady(p.frame_chan) THEN p
    ELSE [p EXCEPT
            !.frame_chan = Append(@, [idx |-> p.widx, time |-> time,
                                      buf |-> NoBuf, fps |-> DefaultFps]),
            !.wpc = AfterSend(TRUE),
            !.widx = @ + 1]

\* The same tick, with the same delta, in both playbacks.
TwinTick ==
    /\ twin.tick < MaxTicks
    /\ \E dt \in Deltas :
         /\ twin.a.video_timer + dt <= MaxTimer
         /\ twin' = [a |-> PlayTick(twin.a, dt, twin.tick + 1),
                     b |-> PlayTick(twin.b, dt, twin.tick + 1),
                     tick |-> twin.tick + 1]
    /\ UNCHANGED <<env, conv, scene, main_pc, boot, threads, history>>

\* The same worker step in both playbacks.
TwinDecode ==
    /\ twin.a.wpc = "decode"
    /\ twin' = [twin EXCEPT !.a = PlayDecode(@), !.b = PlayDecode(@)]
    /\ UNCHANGED <<env, conv, scene, main_pc, boot, threads, history>>

\* The same frame is sent in both playbacks, with any timestamp in each.
TwinSend ==
    /\ twin.a.wpc = "send"
    /\ twin.a.video_receiver => SendReady(twin.a.frame_chan)
    /\ \E ta \in Timestamps, tb \in Timestamps :
         twin' = [twin EXCEPT !.a = PlaySend(@, ta), !.b = PlaySend(@, tb)]
    /\ UNCHANGED <<env, conv, scene, main_pc, boot, threads, history>>

TwinNext == TwinTick \/ TwinDecode \/ TwinSend

\* Two playbacks that start alike and take the same steps.
TwinInit == InitWith(LongRun) /\ conv = NoConv
TwinSpec == TwinInit /\ [][TwinNext]_vars

\* --------------------------------------- the conversion of one frame
\* Line 127: obtain the buffer.
ConvRecv ==
    /\ conv.pc = "recv"
    /\ LET n == BufferLen(conv.width, conv.height)
           buf == ObtainBuffer(conv.recycler_rx, n)
       IN  conv' = [conv EXCEPT
                      !.pc = "size",
                      !.rgba = buf,
                      !.reused = ~FreshNeeded(conv.recycler_rx),
                      !.obtained = Len(buf),
                      !.recycler_rx = IF FreshNeeded(@) THEN @
                                      ELSE TryRecv(@).rest]
    /\ UNCHANGED <<env, twin, scene, main_pc, boot, threads, history>>

\* Lines 130-132: make the buffer width * height * 4 bytes long.
ConvSize ==
    /\ conv.pc = "size"
    /\ conv' = [conv EXCEPT
                  !.pc = "convert",
                  !.rgba = EnsureSize(@, BufferLen(conv.width, conv.height)),
                  !.i = 0]
    /\ UNCHANGED <<env, twin, scene, main_pc, boot, threads, history>>

\* Lines 136-146: one iteration of the conversion loop.
ConvPixel ==
    /\ conv.pc = "convert"
    /\ conv.i < ChunkCount(conv.rgb)
    /\ conv' = [conv EXCEPT
                  !.rgba = ConvertChunk(@, conv.i, Chunk(conv.rgb, conv.i)),
                  !.i = @ + 1]
    /\ UNCHANGED <<env, twin, scene, main_pc, boot, threads, history>>

\* Line 149: the loop is over, the buffer is moved into the message.
ConvSend ==
    /\ conv.pc = "convert"
    /\ conv.i = ChunkCount(conv.rgb)
    /\ conv' = [conv EXCEPT !.pc = "done", !.sent = conv.rgba, !.rgba = <<>>]
    /\ UNCHANGED <<env, twin, scene, main_pc, boot, threads, history>>

ConvNext == ConvRecv \/ ConvSize \/ ConvPixel \/ ConvSend

\* One decoded frame of any size and content within the bounds, with the
\* recycle channel empty or holding a buffer of any length.
ConvInit ==
    /\ InitWith(LongRun)
    /\ conv \in ConvInputs

ConvSpec == ConvInit /\ [][ConvNext]_vars

TypeOK ==
    /\ scene \in {"Boot", "Menu", "Quit"}
    /\ main_pc \in {"idle", "mute", "poll", "show"}
    /\ asset_index \in 0..ASSET_LIST_LEN
    /\ video_timer \in 0..MaxTimer
    /\ session \in 0..MaxSessions

\* --------------------------------------------------------------- helpers
Abs(a) == IF a < 0 THEN -a ELSE a
LiveWorkers == {s \in Sessions : WorkerLive(s)}

RECURSIVE SumOver(_, _)
SumOver(f, S) ==
    IF S = {} THEN 0
    ELSE LET x == CHOOSE y \in S : TRUE IN f[x] + SumOver(f, S \ {x})

\* Frame buffers alive: in a worker's hands, buffered in a frame channel,
\* pending at the consumer, or waiting in a recycle channel.
Outstanding ==
    SumOver([s \in Sessions |->
                (IF worker[s].buf # NoBuf THEN 1 ELSE 0)
                + Len(frame_chan[s]) + Len(recycle_chan[s])], Sessions)
    + (IF next_frame # NoFrame THEN 1 ELSE 0)

\* ---------------------------------------------------------------- claims
\* C1: the number of outstanding frame buffers (worker + frame channel +
\* pending frame + recycle channel) never exceeds ChannelCapacity + 2.
BoundedMemory == Outstanding <= ChannelCapacity + 2

\* The bound is reached: channel full, a frame pending, the worker blocked
\* in send with one more buffer.
BoundedMemoryWitness ==
    /\ Outstanding = ChannelCapacity + 2
    /\ Len(frame_chan[session]) = ChannelCapacity
    /\ worker[session].pc = "send"

\* C2: the frames displayed in a session are a prefix of the frames the
\* worker decoded, in decode order, none skipped, none twice.
FifoDelivery ==
    /\ Len(shown) <= Len(decoded)
    /\ \A i \in 1..Len(shown) : shown[i] = decoded[i]

FifoDeliveryWitness ==
    /\ Len(shown) >= 3
    /\ Len(frame_chan[session]) >= 2
    /\ next_frame # NoFrame

\* C3 (as claimed): with frames available at every poll, the number of
\* frames displayed after elapsed time T is floor(T * F) within one frame.
PacingWithinOneFrame ==
    (video_receiver # 0 /\ main_pc = "idle" /\ scene = "Boot" /\ ~starved)
        => Abs(Len(shown) - (elapsed \div FrameDuration(video_fps))) <= 1

\* C4: a session is restarted only when its worker has exited, its frame
\* channel is empty and no frame is pending, and then every decoded frame
\* 0..N-1 has been displayed, in order.
LoopRestartShowsAll ==
    [][(video_receiver # 0 /\ video_receiver' = 0 /\ scene' # "Quit") =>
           /\ ~WorkerLive(video_receiver)
           /\ frame_chan[video_receiver] = <<>>
           /\ next_frame = NoFrame
           /\ shown = decoded
           /\ \A i \in 1..Len(shown) : shown[i] = i - 1]_vars

\* The second loop iteration has been played to its end and restarted.
LoopRestartWitness ==
    /\ session = 2
    /\ video_receiver = 0
    /\ Len(shown) >= 3

\* C5: after a failed open the worker has returned, has sent no frame, and
\* no frame of that session is buffered, pending or displayed.
OpenFailureSendsNothing ==
    open_failed =>
        /\ ~WorkerLive(session)
        /\ decoded = <<>>
        /\ shown = <<>>
        /\ frame_chan[session] = <<>>
        /\ next_frame = NoFrame

OpenFailureWitness == open_failed /\ video_ended

\* C6 (as claimed): after a source-open failure the controller never
\* initialises again.
FallbackPermanent == [][open_failures > 0 => session' = session]_vars

\* C7: asset loading advances by one entry per completed update whatever
\* the pipeline does, loading_complete is set by update ASSET_LIST_LEN + 1,
\* and from then on an update with Enter pressed switches to the menu.
BootNeverBlocked ==
    /\ asset_index = Min(ticks, ASSET_LIST_LEN)
    /\ loading_complete <=> ticks > ASSET_LIST_LEN
    /\ (loading_complete /\ key_enter) => scene = "Menu"
    /\ scene = "Menu" => loading_complete

BootNeverBlockedWitness ==
    /\ scene = "Menu"
    /\ open_failed
    /\ video_sound = "none"

\* C8: at most one worker is live; a worker is spawned only when no worker
\* is live, and it gets fresh frame and recycle channels.
SingleWorker ==
    [][/\ Cardinality(LiveWorkers') <= 1
       /\ session' # session =>
            /\ LiveWorkers = {}
            /\ session' = session + 1
            /\ worker[session'].pc = "none"
            /\ worker'[session'].pc = "open"
            /\ frame_chan'[session'] = <<>>
            /\ recycle_chan'[session'] = <<>>
            /\ video_receiver' = session'
            /\ recycler_tx' = session']_vars

SingleWorkerWitness ==
    /\ session = 2
    /\ worker[1].pc = "exited"
    /\ WorkerLive(2)

\* C9: the mute handling of update leaves the workers, both channels and
\* their endpoints, the pending frame, the timer and the ended flag
\* unchanged, and spawns nothing.
MuteOrthogonal ==
    [][(main_pc = "mute" /\ main_pc' = "poll") =>
           /\ UNCHANGED pipeline
           /\ session' = session
           /\ shown' = shown]_vars

\* Muted in the middle of a playback.
MuteOrthogonalWitness ==
    /\ video_muted
    /\ main_pc = "poll"
    /\ WorkerLive(session)
    /\ next_frame # NoFrame
    /\ Len(shown) > 0

\* C10 (as claimed): muting while the audio instance is playing silences
\* or stops that instance.
MuteSilencesAudio ==
    [][(~video_muted /\ video_muted') => video_instance' # "playing"]_vars

\* C11: audio never overlaps: at most one instance plays at any time, and
\* it is the one the handle holds; when an update is about to initialise a
\* session (no receiver, between two ticks) the handle holds no playing
\* instance, so that initialisation never overwrites one.
NoOverlappingAudio ==
    /\ audio_live <= 1
    /\ (audio_live = 1) <=> (video_instance = "playing")
    /\ (scene = "Boot" /\ main_pc = "idle" /\ video_receiver = 0)
          => video_instance # "playing"

\* The second session plays its clip alone, the first one's instance having
\* been stopped at the restart.
NoOverlappingAudioWitness ==
    /\ session = 2
    /\ video_instance = "playing"
    /\ audio_live = 1

\* C12 (as claimed): the audio start does not precede the display of the
\* session's first frame: whenever an instance starts to play, a frame of
\* the session has been displayed.
AudioStartsAtFirstFrame ==
    [][(audio_live' > audio_live) => shown' # <<>>]_vars

\* C12 (amended): the clip is started by the initialisation of the session
\* and by nothing else: an instance starts to play only in the step that
\* finds no receiver, creates the session and spawns its worker, before any
\* frame of the session is decoded or displayed.
AudioStartsAtInit ==
    [][(audio_live' > audio_live) =>
          /\ video_receiver = 0
          /\ next_frame = NoFrame
          /\ session' = session + 1
          /\ video_receiver' = session'
          /\ worker'[session'].pc = "open"
          /\ decoded' = <<>>
          /\ shown' = <<>>]_vars

\* The clip plays while the worker has not even opened the decoder.
AudioStartsAtInitWitness ==
    /\ session >= 1
    /\ video_instance = "playing"
    /\ worker[session].pc = "open"
    /\ shown = <<>>

\* C13: an audio failure is not fatal and stays in the audio part: when the
\* clip could not be loaded or played the handle stays empty and nothing
\* plays, and the update goes on with a session whose channels exist and
\* whose worker has been spawned.
AudioFailureIsolated ==
    /\ audio_failed => (video_instance = "none" /\ audio_live = 0)
    /\ (audio_failed /\ main_pc \in {"mute", "poll"}) =>
          /\ session \in Sessions
          /\ video_receiver = session
          /\ recycler_tx = session
          /\ worker[session].pc # "none"

\* No sound could be loaded in either session; the first session has been
\* shown and restarted all the same, and the second one displays frames.
AudioFailureWitness ==
    /\ audio_failed
    /\ video_sound = "none"
    /\ session = 2
    /\ shown # <<>>

\* C14 (as claimed): two consecutive displays of a session are separated
\* by at least frame_duration of accumulated tick time.
PacedByFrameDuration ==
    [][(Len(shown') > Len(shown) /\ shown # <<>>) =>
          since_shown >= FrameDuration(video_fps')]_vars

\* C14 (amended): display is paced by the timer and not by the decoder: the
\* k frames displayed in a session have each been paid for with one
\* frame_duration of the tick time accumulated since the session's
\* initialisation, so k * frame_duration never exceeds that time, and the
\* frames displayed are frames 0, 1, 2, ... of the source, none skipped.
PacingNeverAhead ==
    /\ shown # <<>> => Len(shown) * FrameDuration(video_fps) <= elapsed
    /\ \A i \in 1..Len(shown) : shown[i] = i - 1

\* Catching up after a slow decoder: a frame is about to be displayed less
\* than a frame_duration after the previous one.
PacingCatchUpWitness ==
    /\ main_pc = "show"
    /\ video_receiver # 0
    /\ next_frame # NoFrame
    /\ FrameDue(video_timer, next_frame.fps)
    /\ shown # <<>>
    /\ starved
    /\ since_shown < FrameDuration(next_frame.fps)

\* Some tick delta keeps the timer within the range explored.
TickExplored ==
    video_receiver # 0 => \E dt \in env.deltas : video_timer + dt <= MaxTimer

\* C15: the consumer never blocks: at every point of an update the main
\* thread can take its next step, whatever the worker and the channels are
\* doing (within the sessions and the timer range explored).
ConsumerNeverBlocks ==
    /\ (scene = "Boot" /\ main_pc = "idle"
          /\ (InitNeeded => session < env.sessions)) => ENABLED UpdateInit
    /\ main_pc = "mute" => ENABLED HandleMute
    /\ (main_pc = "poll" /\ TickExplored) => ENABLED ProcessPoll
    /\ main_pc = "show" => ENABLED ProcessShow

\* The poll has found the channel of a live worker empty, and the update
\* goes on.
ConsumerNeverBlocksWitness ==
    /\ main_pc = "show"
    /\ video_receiver # 0
    /\ next_frame = NoFrame
    /\ frame_chan[video_receiver] = <<>>
    /\ WorkerLive(video_receiver)
    /\ starved
    /\ ~video_ended

\* C16: backpressure: a frame channel never buffers more than
\* ChannelCapacity frames, and a live worker can always take its next step
\* except when it is in send, its receiver is alive and the channel is full.
Backpressure ==
    \A s \in Sessions :
        /\ Len(frame_chan[s]) <= ChannelCapacity
        /\ WorkerLive(s) =>
              (ENABLED WorkerStep(s) <=>
                  ~(/\ worker[s].pc = "send"
                    /\ video_receiver = s
                    /\ Len(frame_chan[s]) = ChannelCapacity))

\* The send of frame number ChannelCapacity + 1 waits: the channel is full
\* and the consumer has not taken a frame yet.
BackpressureWitness ==
    /\ session \in Sessions
    /\ video_receiver = session
    /\ worker[session].pc = "send"
    /\ worker[session].idx = ChannelCapacity
    /\ Len(frame_chan[session]) = ChannelCapacity
    /\ next_frame = NoFrame
    /\ shown = <<>>

\* C17: with ticks that keep coming and a fairly scheduled worker, playback
\* loops: unless the application quits, every session reaches the end of
\* its stream and is restarted, and after every restart the next session is
\* initialised, up to the restart of the last session explored; no session
\* hangs with its worker blocked on a full channel.
LoopsForever ==
    <>(scene = "Quit" \/ (session = MaxSessions /\ video_receiver = 0))

\* The second session has run to its end and has been restarted, after its
\* worker had been blocked on the full frame channel.
LoopsForeverWitness ==
    /\ env = LiveRun
    /\ session = 2
    /\ video_receiver = 0
    /\ Len(shown) > ChannelCapacity


\* C18: abandonment: once the controller has dropped the endpoints of a
\* live worker, that worker sends no further frame, its send is not blocked
\* and fails, and the worker exits with that failed send.
AbandonedWorkerExits ==
    [][\A s \in Sessions :
          (WorkerLive(s) /\ video_receiver # s) =>
             /\ frame_chan'[s] = frame_chan[s]
             /\ worker[s].pc = "send" => ENABLED WorkerSend(s)
             /\ (worker[s].pc = "send" /\ worker'[s] # worker[s])
                   => worker'[s].pc = "exited"]_vars

\* The application has quit while the worker was decoding; the worker has
\* left its loop through the failed send, not through the end of the source.
AbandonedWorkerWitness ==
    /\ scene = "Quit"
    /\ session \in Sessions
    /\ worker[session].pc = "exited"
    /\ decoded # <<>>
    /\ end_cause = "none"
    /\ ~open_failed

\* Frames of the current session the worker has handed over and the
\* consumer has not displayed yet.
InFlight ==
    Len(frame_chan[session]) + (IF next_frame # NoFrame THEN 1 ELSE 0)

\* C19: a decode failure in mid-stream is handled like the natural end:
\* the worker has exited and has sent the frames decoded before and nothing
\* else, and the restart, which finds all of them displayed in order, is
\* the restart of a natural end: endpoints dropped, flag cleared, timer
\* zero, no instance playing.
DecodeErrorLikeEnd ==
    [][/\ (end_cause' = "error" /\ video_receiver' = session') =>
             /\ worker'[session'].pc = "exited"
             /\ Len(shown') + InFlight' = Len(decoded')
       /\ (end_cause = "error" /\ video_receiver # 0
             /\ video_receiver' = 0 /\ scene' # "Quit") =>
             /\ shown' = decoded
             /\ \A i \in 1..Len(shown') : shown'[i] = i - 1
             /\ recycler_tx' = 0
             /\ ~video_ended'
             /\ video_timer' = 0
             /\ next_frame' = NoFrame
             /\ video_instance' # "playing"]_vars

\* A session whose third or later frame failed to decode has been shown up
\* to that frame and restarted.
DecodeErrorWitness ==
    /\ end_cause = "error"
    /\ video_receiver = 0
    /\ scene = "Boot"
    /\ Len(shown) >= 2
    /\ shown = decoded

\* C20 (as claimed): with ticks of d <= frame_duration and frames available
\* at every poll after the first one received, the number of frames
\* displayed catches up with floor(T / frame_duration): once MaxTimer
\* frames have been displayed (a backlog within the timer range explored is
\* made up by then), the two are equal at the end of every tick.
CatchesUp ==
    (/\ env.deltas = {1}
     /\ video_receiver # 0
     /\ main_pc = "idle"
     /\ ~late_starved
     /\ Len(shown) >= MaxTimer)
       => Len(shown) = elapsed \div FrameDuration(video_fps)

\* C21 (as claimed): the scheduler consumes frames in a loop: every tick of
\* a session ends either with the timer below frame_duration, or with no
\* frame pending and none available: the poll of the tick found none, or
\* the frame channel holds no replacement for the frame just displayed.
SchedulerInnerLoop ==
    [][(main_pc = "show" /\ main_pc' = "idle" /\ video_receiver' # 0) =>
          \/ video_timer' < FrameDuration(video_fps')
          \/ /\ next_frame' = NoFrame
             /\ \/ next_frame = NoFrame
                \/ frame_chan'[video_receiver'] = <<>>]_vars

\* C22: timer conservation.  While a session has its receiver, the timer
\* is the tick time accumulated since the session's initialisation minus
\* one frame_duration per frame displayed, and it is never negative; a step
\* increases it only by the tick delta it adds to the accumulated time, and
\* decreases it only by the frame_duration of the frame it displays or, in
\* the restart (receiver dropped in the scene), to zero.
TimerConservation ==
    [][/\ video_receiver' # 0 =>
            /\ video_timer' =
                  elapsed' - Len(shown') * FrameDuration(video_fps')
            /\ video_timer' >= 0
       /\ video_timer' > video_timer =>
            /\ main_pc = "poll"
            /\ video_timer' - video_timer = elapsed' - elapsed
            /\ shown' = shown
       /\ video_timer' < video_timer =>
            \/ /\ Len(shown') = Len(shown) + 1
               /\ video_timer - video_timer' = FrameDuration(video_fps')
               /\ elapsed' = elapsed
            \/ /\ video_receiver # 0
               /\ video_receiver' = 0
               /\ scene' # "Quit"
               /\ video_ended
               /\ video_timer' = 0]_vars

\* In the second session two frames have been displayed and the timer
\* carries a remainder into the next tick.
TimerConservationWitness ==
    /\ session = 2
    /\ video_receiver = 2
    /\ main_pc = "idle"
    /\ Len(shown) >= 2
    /\ video_timer > 0
    /\ video_timer < FrameDuration(video_fps)

\* C23 (as claimed): the restart is performed on the tick after the one
\* that detected the end: a poll that leaves the controller about to restart
\* (ended, no frame pending) found the ended flag already set by an earlier
\* tick.
RestartOnFollowingTick ==
    [][(/\ main_pc = "poll" /\ main_pc' = "show"
        /\ video_receiver' # 0 /\ next_frame' = NoFrame /\ video_ended')
          => video_ended]_vars

\* C23 (amended): the tick whose poll detects the closed channel with no
\* frame pending performs the restart itself: the flag was clear before
\* that poll, and the same tick's display step stops and clears the audio
\* handle, drops both endpoints, clears the flag and zeroes the timer,
\* without spawning anything; a session is initialised only by the first
\* step of a tick, so never in the tick of the restart.
RestartProtocol ==
    [][/\ (/\ main_pc = "poll" /\ main_pc' = "show"
           /\ video_receiver' # 0 /\ next_frame' = NoFrame /\ video_ended')
             => ~video_ended
       /\ (/\ main_pc = "show" /\ main_pc' = "idle"
           /\ video_receiver # 0 /\ next_frame = NoFrame /\ video_ended)
             => /\ video_receiver' = 0
                /\ recycler_tx' = 0
                /\ ~video_ended'
                /\ video_timer' = 0
                /\ video_instance' = "none"
                /\ audio_live' = 0
                /\ session' = session
                /\ worker' = worker
       /\ session' # session =>
             /\ main_pc = "idle" /\ main_pc' = "mute"
             /\ video_receiver = 0
             /\ ~video_ended]_vars

\* Between the restart and the next tick: the clip that played has been
\* stopped and the handle cleared, the endpoints are gone, the next session
\* does not exist yet.
RestartProtocolWitness ==
    /\ scene = "Boot"
    /\ main_pc = "idle"
    /\ session = 1
    /\ video_receiver = 0
    /\ shown # <<>>
    /\ video_sound # "none"
    /\ video_instance = "none"
    /\ ~video_muted
    /\ video_timer = 0

\* C24: buffer reuse.  A worker allocates a buffer only in a decode step
\* that finds its recycle channel empty, and one buffer at a time; a decode
\* step that finds a recycled buffer takes the oldest one and allocates
\* nothing; and a worker never allocates more than ChannelCapacity + 2
\* buffers, however many frames it decodes.
BufferReuse ==
    [][\A s \in Sessions :
          /\ worker'[s].allocs > worker[s].allocs =>
                /\ worker[s].pc = "decode"
                /\ recycle_chan[s] = <<>>
                /\ worker'[s].allocs = worker[s].allocs + 1
                /\ worker'[s].buf[1] = s
                /\ worker'[s].buf[2] = worker'[s].allocs
          /\ (/\ worker[s].pc = "decode" /\ worker'[s].pc = "send"
              /\ recycle_chan[s] # <<>>) =>
                /\ worker'[s].buf = Head(recycle_chan[s])
                /\ recycle_chan'[s] = Tail(recycle_chan[s])
                /\ worker'[s].allocs = worker[s].allocs
          /\ worker'[s].allocs <= ChannelCapacity + 2]_vars

\* The pool is in steady state: the worker holds frame number
\* ChannelCapacity + 3 in a recycled buffer, after ChannelCapacity + 2
\* allocations.
BufferReuseWitness ==
    /\ session \in Sessions
    /\ worker[session].pc = "send"
    /\ worker[session].idx = ChannelCapacity + 2
    /\ worker[session].allocs = ChannelCapacity + 2

\* C25: buffer size.  Whatever the length of the buffer obtained from the
\* recycle channel, the conversion works on a buffer of exactly
\* width * height * 4 bytes, every write of the loop finds its four bytes
\* inside the buffer, the worker can always take its next step up to the
\* send, and the buffer sent has exactly that length.
BufferSizeExact ==
    LET n == BufferLen(conv.width, conv.height)
    IN  /\ conv.pc = "convert" =>
              /\ Len(conv.rgba) = n
              /\ conv.i < ChunkCount(conv.rgb) =>
                    4 * conv.i + 4 <= Len(conv.rgba)
        /\ conv.pc = "done" => Len(conv.sent) = n
        /\ conv.pc # "done" => ENABLED ConvNext

\* A frame has been sent in a recycled buffer that was longer than the
\* frame needs.
BufferSizeWitness ==
    /\ conv.pc = "done"
    /\ conv.reused
    /\ conv.obtained > BufferLen(conv.width, conv.height)

\* C26: RGB to RGBA conversion.  In the buffer sent, pixel i has the three
\* bytes of pixel i of the decoded frame followed by Opaque, for every pixel
\* of the frame, and the buffer has no other byte: nothing of what a recycled
\* buffer held survives.
ConversionExact ==
    conv.pc = "done" =>
        /\ \A i \in 0..(conv.width * conv.height - 1) :
              /\ \A c \in 1..3 : conv.sent[4 * i + c] = conv.rgb[3 * i + c]
              /\ conv.sent[4 * i + 4] = Opaque
        /\ DOMAIN conv.sent = 1..(4 * conv.width * conv.height)
        /\ \A k \in DOMAIN conv.sent : conv.sent[k] # StaleByte

\* A frame of MaxPixels pixels has been sent in a recycled buffer of just
\* the right length, which was full of stale bytes.
ConversionWitness ==
    /\ conv.pc = "done"
    /\ conv.reused
    /\ conv.obtained = BufferLen(conv.width, conv.height)
    /\ conv.width * conv.height = MaxPixels

\* The frames of session s that are buffered or pending.
FramesOf(s) ==
    {frame_chan[s][k] : k \in 1..Len(frame_chan[s])}
      \cup (IF video_receiver = s /\ next_frame # NoFrame THEN {next_frame}
            ELSE {})

\* C27: frame-rate fallback.  The fps a worker attaches to its frames is the
\* rate the decoder reported if that is positive and DefaultFps if it is
\* zero or negative; every frame buffered or pending carries the fps of its
\* session's worker, which is positive and gives a positive frame_duration,
\* and the fps the consumer paces the session's displayed frames with is
\* that same value.
FrameRateFallback ==
    \A s \in Sessions :
        /\ worker[s].pc \in {"decode", "send"} =>
              /\ worker[s].rate > 0 => worker[s].fps = worker[s].rate
              /\ worker[s].rate <= 0 => worker[s].fps = DefaultFps
              /\ \A f \in FramesOf(s) : f.fps = worker[s].fps
        /\ \A f \in FramesOf(s), g \in FramesOf(s) : f.fps = g.fps
        /\ \A f \in FramesOf(s) :
              /\ f.fps > 0
              /\ FrameDuration(f.fps) > 0
              /\ (video_receiver = s /\ shown # <<>>) => video_fps = f.fps

\* The decoder reported a negative rate, and the frames of the session are
\* paced at DefaultFps: one is displayed, one is pending, one is buffered.
FrameRateFallbackWitness ==
    /\ session \in Sessions
    /\ worker[session].pc \in {"decode", "send"}
    /\ worker[session].rate < 0
    /\ shown # <<>>
    /\ next_frame # NoFrame
    /\ next_frame.fps = DefaultFps
    /\ frame_chan[session] # <<>>

\* C28: single pending frame.  A frame leaves the frame channel of the
\* current session only in the poll of an update that holds no pending
\* frame, and it is the oldest one and becomes the pending frame; so the
\* consumer holds at most one frame received and not displayed: a pending
\* frame is always the frame that follows the last one displayed.
SinglePendingFrame ==
    [][/\ \A s \in Sessions :
             (video_receiver' = s /\ Len(frame_chan'[s]) < Len(frame_chan[s]))
                => /\ main_pc = "poll"
                   /\ next_frame = NoFrame
                   /\ next_frame' = Head(frame_chan[s])
                   /\ frame_chan'[s] = Tail(frame_chan[s])
       /\ (next_frame # NoFrame /\ main_pc = "poll" /\ main_pc' = "show") =>
             /\ next_frame' = next_frame
             /\ frame_chan' = frame_chan
       /\ next_frame' # NoFrame => next_frame'.idx = Len(shown')]_vars

\* An update reaches its poll with a frame still pending from an earlier
\* tick, while the frame channel holds further frames.
SinglePendingFrameWitness ==
    /\ main_pc = "poll"
    /\ video_receiver # 0
    /\ next_frame # NoFrame
    /\ Len(frame_chan[video_receiver]) >= 2
    /\ shown # <<>>

\* The buffers that are in some place: a worker's hands, a frame channel,
\* the pending frame, a recycle channel.
HeldBuffers ==
    (UNION {{worker[s].buf}
              \cup {frame_chan[s][k].buf : k \in 1..Len(frame_chan[s])}
              \cup {recycle_chan[s][k] : k \in 1..Len(recycle_chan[s])} :
            s \in Sessions}
       \cup {next_frame.buf}) \ {NoBuf}

\* C29: exclusive ownership.  In every state each buffer is in at most one
\* place (in none when it has been freed): the places hold as many
\* different buffers as they hold buffers.  A buffer leaves the worker's
\* hands only into the frame channel, or freed by a failed send or the
\* worker's exit, and then the worker holds none; the worker gets a buffer
\* only from the recycle channel or by allocation; the consumer gets one
\* only as the oldest message of the frame channel, and gives it up only
\* to the recycle channel or freed.
ExclusiveOwnership ==
    /\ [](Cardinality(HeldBuffers) = Outstanding)
    /\ [][/\ \A s \in Sessions :
                /\ (worker[s].buf # NoBuf /\ worker'[s].buf # worker[s].buf) =>
                      /\ worker'[s].buf = NoBuf
                      /\ \/ /\ Len(frame_chan'[s]) = Len(frame_chan[s]) + 1
                            /\ frame_chan'[s][Len(frame_chan'[s])].buf
                                  = worker[s].buf
                         \/ worker[s].buf \notin HeldBuffers'
                /\ (worker[s].buf = NoBuf /\ worker'[s].buf # NoBuf) =>
                      \/ /\ recycle_chan[s] # <<>>
                         /\ worker'[s].buf = Head(recycle_chan[s])
                         /\ recycle_chan'[s] = Tail(recycle_chan[s])
                      \/ worker'[s].buf \notin HeldBuffers
          /\ (next_frame' # NoFrame /\ next_frame' # next_frame) =>
                /\ next_frame = NoFrame
                /\ next_frame' = Head(frame_chan[video_receiver])
                /\ frame_chan'[video_receiver] = Tail(frame_chan[video_receiver])
          /\ (next_frame # NoFrame /\ next_frame' = NoFrame) =>
                \/ /\ recycler_tx # 0
                   /\ recycle_chan'[recycler_tx]
                         = Append(recycle_chan[recycler_tx], next_frame.buf)
                \/ next_frame.buf \notin HeldBuffers']_vars

\* Buffers are in all four places at once: one in the worker's hands, some
\* in the frame channel, one pending, one waiting to be recycled.
ExclusiveOwnershipWitness ==
    /\ session \in Sessions
    /\ worker[session].pc = "send"
    /\ frame_chan[session] # <<>>
    /\ next_frame # NoFrame
    /\ recycle_chan[session] # <<>>

\* C30 (as claimed): paired media.  Whenever the initialisation of a
\* session starts a clip, the clip is of the language variant of the video
\* file the session's worker opens: the paired audio file or, by the
\* fallback, the audio of that video file itself.
PairedMedia ==
    [][(session' # session /\ audio_live' > audio_live) =>
          \E lang \in Languages :
              /\ worker'[session'].src = VideoFile(lang)
              /\ video_sound' \in {AudioFile(lang), VideoFile(lang)}]_vars

\* C31: progress gating.  The scene leaves Boot for the menu only in the
\* last step of a tick that has loading_complete set and Enter pressed, and
\* no step of a worker and no earlier step of the tick changes the scene,
\* the manifest index or the flag; every tick moves asset_index on by
\* exactly one entry, whether or not the entry loads, until it has reached
\* ASSET_LIST_LEN, which it never exceeds; and loading_complete implies
\* asset_index = ASSET_LIST_LEN.
ProgressGating ==
    [][/\ (scene = "Boot" /\ scene' = "Menu") =>
             /\ main_pc = "show" /\ main_pc' = "idle"
             /\ loading_complete'
             /\ key_enter'
       /\ ~(main_pc = "show" /\ main_pc' = "idle") =>
             /\ scene' \in {scene, "Quit"}
             /\ asset_index' = asset_index
             /\ loading_complete' = loading_complete
       /\ (main_pc = "show" /\ main_pc' = "idle") =>
             /\ asset_index < ASSET_LIST_LEN => asset_index' = asset_index + 1
             /\ asset_index = ASSET_LIST_LEN => asset_index' = asset_index
             /\ (loading_complete' /\ key_enter') => scene' = "Menu"
       /\ asset_index' <= ASSET_LIST_LEN
       /\ loading_complete' => asset_index' = ASSET_LIST_LEN]_vars

\* The menu has been reached although an asset failed to load, while the
\* video of the session was still being decoded and displayed.
ProgressGatingWitness ==
    /\ scene = "Menu"
    /\ asset_failed
    /\ asset_index = ASSET_LIST_LEN
    /\ session \in Sessions
    /\ WorkerLive(session)
    /\ video_receiver = session

\* C32 (as claimed): display surface lifecycle.  The first frame displayed
\* creates the surface and every later frame is written into it: after any
\* display the surface exists and holds the frame displayed; once created
\* it is never cleared or created again.
SurfaceCreatedByFirstFrame ==
    [][/\ Len(shown') > Len(shown) =>
             /\ ~PlaceholderShown'
             /\ video_texture'.frame = shown'[Len(shown')]
       /\ ~PlaceholderShown =>
             /\ ~PlaceholderShown'
             /\ video_texture'.id = video_texture.id]_vars

\* C32 (amended): the surface is created by the first displayed frame whose
\* Texture::from_data call succeeds, and only by a display; with calls that
\* succeed that is the first frame displayed, and every later frame is
\* written into the same surface.  Once created the surface is never
\* cleared or created again: not by a restart, not by a later session,
\* whether or not its source opens.  The placeholder is shown exactly while
\* no surface has been created.
SurfaceLifecycle ==
    [][/\ Len(shown') > Len(shown) =>
             LET idx == shown'[Len(shown')]
             IN  /\ PlaceholderShown =>
                       video_texture' \in {NoTexture, [id |-> 1, frame |-> idx]}
                 /\ ~PlaceholderShown =>
                       video_texture' \in
                          {video_texture, [video_texture EXCEPT !.frame = idx]}
                 /\ "texture" \notin env.api_faults =>
                       (~PlaceholderShown' /\ video_texture'.frame = idx)
       /\ video_texture' # video_texture =>
             /\ main_pc = "show"
             /\ Len(shown') = Len(shown) + 1
       /\ ~PlaceholderShown =>
             /\ ~PlaceholderShown'
             /\ video_texture'.id = video_texture.id
       /\ video_texture'.id \in {0, 1}
       /\ PlaceholderShown' <=> video_texture'.id = 0]_vars

\* The surface created in the first session is still there, holding that
\* session's last frame, after the restart and the failure of the second
\* session's source to open.
SurfaceLifecycleWitness ==
    /\ session = 2
    /\ open_failed
    /\ shown = <<>>
    /\ video_texture.id = 1
    /\ video_texture.frame >= 1

\* C33: the ended flag is never observable between ticks.  video_ended is
\* set only between the poll and the display step of one update, with the
\* receiver present and no frame pending, which is the state the same
\* update restarts from; at the start of every update the flag is clear, so
\* the guard of the initialisation is decided by the receiver alone.
EndedFlagTransient ==
    /\ video_ended =>
          /\ main_pc = "show"
          /\ video_receiver # 0
          /\ next_frame = NoFrame
          /\ RestartDue
    /\ main_pc = "idle" => (InitNeeded <=> video_receiver = 0)

\* In the second session the poll has just set the flag, after frames have
\* been displayed; the first session's restart has cleared it before.
EndedFlagWitness ==
    /\ session = 2
    /\ video_ended
    /\ main_pc = "show"
    /\ shown # <<>>

\* C34: one frame per tick.  A tick has one poll and one display step.  A
\* frame is displayed only by the display step, one at a time, and it is
\* the pending frame; that step fetches nothing: it ends with no frame
\* pending and leaves the frame channel to the next tick's poll, however
\* large the timer is.  A frame is taken from the current frame channel
\* only by the poll, one at a time, with no frame pending before.  Every
\* poll of a session adds the tick delta to the timer, and a display step
\* that finds no frame pending and no end of stream leaves the timer as it
\* is, so the timer keeps growing while no frame is pending.
OneFramePerTick ==
    [][/\ Len(shown') > Len(shown) =>
             /\ main_pc = "show" /\ main_pc' = "idle"
             /\ next_frame # NoFrame
             /\ shown' = Append(shown, next_frame.idx)
             /\ next_frame' = NoFrame
             /\ frame_chan' = frame_chan
       /\ \A s \in Sessions :
             (video_receiver' = s /\ Len(frame_chan'[s]) < Len(frame_chan[s]))
                => /\ main_pc = "poll" /\ main_pc' = "show"
                   /\ next_frame = NoFrame
                   /\ Len(frame_chan'[s]) = Len(frame_chan[s]) - 1
       /\ (main_pc = "poll" /\ main_pc' = "show" /\ video_receiver # 0) =>
             /\ video_timer' - video_timer \in env.deltas
             /\ shown' = shown
       /\ (main_pc = "show" /\ main_pc' = "idle"
             /\ next_frame = NoFrame /\ ~video_ended) =>
             /\ video_timer' = video_timer
             /\ frame_chan' = frame_chan
             /\ next_frame' = NoFrame]_vars

\* A tick has displayed a frame and ends with the timer still worth another
\* frame and the next frame waiting in the frame channel: that frame is
\* left to a later tick.
OneFramePerTickWitness ==
    /\ main_pc = "idle"
    /\ scene = "Boot"
    /\ video_receiver # 0
    /\ shown # <<>>
    /\ since_shown = 0
    /\ next_frame = NoFrame
    /\ video_timer >= FrameDuration(video_fps)
    /\ frame_chan[video_receiver] # <<>>

\* The scene is Menu, the session's receiver is kept, and its worker has
\* more frames left to send than the frame channel has room for.
MenuBacklog ==
    /\ scene = "Menu"
    /\ video_receiver # 0
    /\ worker[video_receiver].pc \in {"decode", "send"}
    /\ env.frames - worker[video_receiver].idx
          > ChannelCapacity - Len(frame_chan[video_receiver])

\* The worker of the kept session waits in send on the full frame channel.
SendBlocked ==
    /\ scene = "Menu"
    /\ video_receiver # 0
    /\ worker[video_receiver].pc = "send"
    /\ Len(frame_chan[video_receiver]) = ChannelCapacity
    /\ ~SendReady(frame_chan[video_receiver])

\* C35: leaving the boot scene does not tear the session down.  The step
\* that switches to Menu leaves no instance playing and keeps both
\* endpoints (unless the same tick restarts the session); in Menu the main
\* thread takes no step of update: endpoints, pending frame and displayed
\* frames stay as they are, no frame leaves a frame channel and no buffer
\* is recycled.  So a
\* worker with more frames left to send than the channel has room for
\* (more than ChannelCapacity is always enough) stays alive unless a frame
\* fails to decode, fills the channel and ends blocked in send, for ever.
NoTeardownOnLeave ==
    /\ [][/\ (scene = "Boot" /\ scene' = "Menu") =>
                /\ video_instance' # "playing"
                /\ audio_live' = 0
                /\ ~RestartDue =>
                      /\ video_receiver' = video_receiver
                      /\ recycler_tx' = recycler_tx
          /\ scene = "Menu" =>
                /\ scene' = "Menu"
                /\ UNCHANGED <<main_pc, video_receiver, recycler_tx,
                               next_frame, shown>>
                /\ \A s \in Sessions :
                      /\ Len(frame_chan'[s]) >= Len(frame_chan[s])
                      /\ Len(frame_chan'[s]) <= ChannelCapacity
                      /\ Len(recycle_chan'[s]) <= Len(recycle_chan[s])
          /\ MenuBacklog =>
                \/ MenuBacklog'
                \/ end_cause' = "error"
          /\ SendBlocked => (SendBlocked' /\ UNCHANGED vars)]_vars
    /\ MenuBacklog ~> (SendBlocked \/ end_cause = "error")

\* Enter was pressed while the worker had sent at most one of its frames;
\* the worker has filled the channel since and waits in send, a frame is
\* pending that will never be displayed, and nothing plays.
NoTeardownWitness ==
    /\ SendBlocked
    /\ MenuBacklog
    /\ worker[video_receiver].idx = ChannelCapacity + 1
    /\ next_frame # NoFrame
    /\ shown = <<>>
    /\ video_instance = "stopped"

\* A frame, and a playback, without the timestamps.
EraseTime(frame) == [frame EXCEPT !.time = 0]
ErasePlayback(p) ==
    [p EXCEPT !.next_frame = EraseTime(@),
              !.frame_chan = [k \in 1..Len(@) |-> EraseTime(@[k])]]

\* C36: frame timestamps do not influence playback.  Two playbacks of the
\* same source that get the same tick deltas and the same worker steps at
\* the same points, and whose frames carry any timestamps, are alike in
\* everything but the timestamps: the same frames displayed at the same
\* ticks, the same restarts at the same ticks, the same timer, pending
\* frame, channel contents and worker position.
TimestampsIrrelevant ==
    ErasePlayback(twin.a) = ErasePlayback(twin.b)

\* In their second session the two playbacks hold the same pending frame
\* with different timestamps, after displaying both frames of the first
\* session, whose restart they made at the same tick.
TimestampsWitness ==
    /\ twin.a.restarts # <<>>
    /\ Len(twin.a.displayed) >= ShortFrames
    /\ twin.a.next_frame # NoFrame
    /\ twin.a.next_frame.time # twin.b.next_frame.time

\* The buffers of session s: in its worker's hands, in its frame channel,
\* pending at the consumer, or in its recycle channel.
BuffersOf(s) ==
    ({worker[s].buf}
        \cup {frame_chan[s][k].buf : k \in 1..Len(frame_chan[s])}
        \cup {recycle_chan[s][k] : k \in 1..Len(recycle_chan[s])}
        \cup (IF video_receiver = s THEN {next_frame.buf} ELSE {})) \ {NoBuf}

\* C37: the resize branch is never taken.  Every buffer of a session, where
\* ever it is, was allocated by that session's worker and has the length
\* that worker needs, width * height * 4 of the size it read when it opened
\* its source; a pending frame belongs to the session of the receiver; the
\* recycle channel of a session starts empty; so every buffer a worker
\* obtains, fresh or recycled, has the length needed, and no worker has
\* ever resized one.
ResizeNeverTaken ==
    /\ \A s \in Sessions :
          /\ ~worker[s].resized
          /\ \A b \in BuffersOf(s) :
                /\ b[1] = s
                /\ b[3] = BufferLen(SizeOf(s)[1], SizeOf(s)[2])
          /\ worker[s].pc = "send" =>
                worker[s].buf[3] = NeededLen(s, worker[s].idx)
          /\ worker[s].pc \in {"none", "open"} =>
                recycle_chan[s] = <<>>
    /\ next_frame # NoFrame =>
          (video_receiver # 0 /\ next_frame.buf[1] = video_receiver)
    /\ recycler_tx = video_receiver

\* The worker of the second session, whose video has another size than the
\* first one's, holds a recycled buffer for its frame; buffers of the first
\* session have been recycled before.
ResizeNeverTakenWitness ==
    /\ session = 2
    /\ worker[2].pc = "send"
    /\ worker[2].idx > worker[2].allocs
    /\ worker[2].buf[3] # BufferLen(SizeOf(1)[1], SizeOf(1)[2])

====
